---- MODULE Spec2Model ----
(***************************************************************************)
(* Model of src/main.rs of numberlink_solver: the puzzle-code decoder      *)
(* (parse_url, decode_field, get_num, consume), the field validator        *)
(* (parse_field and the check in solve_numberlink), the arc generator      *)
(* (adj, gen_arcs), the cardinality-clause builders (mk_clause_eq1,        *)
(* mk_clause_less2) and the encoder / solve step of solve_numberlink.      *)
(*                                                                         *)
(* Vec<T> is a TLA+ sequence; Rust's 0-based index k is element k+1.       *)
(* A char is its code point.  Option<T> is None or Some(x).  A Rust panic  *)
(* (index out of bounds) is the terminal control state pc = "panic".       *)
(***************************************************************************)
EXTENDS Integers, Sequences, FiniteSets

VARIABLES
    pc,       \* control position of the running function
    width,    \* width  (parse_url / decode_field / solve_numberlink / gen_arcs)
    height,   \* height (same)
    list,     \* decode_field: the code as Vec<char>
    index,    \* decode_field: position in list
    i,        \* decode_field / parse_field / gen_arcs: row counter
    j,        \* decode_field / parse_field / gen_arcs: column counter
    res,      \* the local `res` of decode_field, gen_arcs, mk_clause_*
    start,    \* history: value of index when the current outer iteration began
    field,    \* solve_numberlink: the Field argument
    cnt,      \* parse_field: occurrences seen per label
    ends,     \* parse_field: ends[0] sources, ends[1] targets
    b,        \* parse_field / solve_numberlink: body cells
    parsed,   \* value returned by parse_field
    s,        \* solve_numberlink: sources
    t,        \* solve_numberlink: targets
    arcs,     \* solve_numberlink: gen_arcs(width, height)
    formula,  \* solve_numberlink: the CnfFormula, a Vec of clauses
    model,    \* solve_numberlink: solver.model()
    vars,     \* mk_clause_*: the argument
    ret       \* value returned by the function under study

vrs == <<pc, width, height, list, index, i, j, res, start, field, cnt, ends,
         b, parsed, s, t, arcs, formula, model, vars, ret>>

----------------------------------------------------------------------------
(* Bounds of the explored inputs *)

MaxLen == 3        \* longest field code explored
MaxDim == 3        \* largest width / height handed to parse_url
MaxGrid == 4       \* largest width / height handed to gen_arcs alone
MaxCells == 4      \* largest width*height of a field handed to solve_numberlink
MaxLabel == 2      \* largest label in a field handed to solve_numberlink
MaxN == 4          \* longest variable list handed to mk_clause_*

----------------------------------------------------------------------------
(* Values shared by all functions *)

None == [tag |-> "None"]
Some(x) == [tag |-> "Some", val |-> x]
Unset == [tag |-> "Unset"]

\* `x as usize` for an i32 x >= -1: a negative value wraps to the top of the
\* usize range, represented by UsizeTop + x + 1 (above every bound explored).
UsizeTop == 1000000
AsUsize(x) == IF x < 0 THEN UsizeTop + x + 1 ELSE x

\* v[k] with Rust's 0-based index
At(v, k) == v[k + 1]
Cell(f, p) == f[p[1] + 1][p[2] + 1]
Contains(v, x) == \E k \in 1..Len(v) : v[k] = x

RECURSIVE Flatten(_)
Flatten(ss) == IF ss = <<>> THEN <<>> ELSE Head(ss) \o Flatten(Tail(ss))

----------------------------------------------------------------------------
(* parse_url / decode_field / get_num / consume *)

CH_0 == 48
CH_9 == 57
CH_A == 65
CH_F == 70
CH_Z == 90
CH_a == 97
CH_f == 102
CH_z == 122

\* code points the codes are drawn from: # 0 3 G b g h
Alphabet == {35, 48, 51, 71, 98, 103, 104}

\* char::is_alphanumeric, restricted to ASCII
is_alphanumeric(ch) ==
    \/ ch >= CH_0 /\ ch <= CH_9
    \/ ch >= CH_A /\ ch <= CH_Z
    \/ ch >= CH_a /\ ch <= CH_z

is_valid_code(code) == \A k \in 1..Len(code) : is_alphanumeric(code[k])

\* char::is_digit(16)
is_digit16(ch) ==
    \/ ch >= CH_0 /\ ch <= CH_9
    \/ ch >= CH_A /\ ch <= CH_F
    \/ ch >= CH_a /\ ch <= CH_f

\* char::to_digit(16) on a char accepted by is_digit16
to_digit16(ch) ==
    IF ch <= CH_9 THEN ch - CH_0
    ELSE IF ch <= CH_F THEN ch - CH_A + 10
    ELSE ch - CH_a + 10

get_num(idx, l) ==
    IF is_digit16(At(l, idx)) THEN Some(to_digit16(At(l, idx))) ELSE None

\* consume: value = ch - 'f'
SkipValue(ch) == ch - CH_f

\* a consume that steps one row down whenever the column overflows
WrapRowOnce(row, col, w) == row + 1

\* consume: *i += *j / width, after *j += value
WrapRow(row, col, w) == row + (col \div w)

\* consume: *j %= width
WrapCol(col, w) == col % w

ZeroField(w, h) == [r \in 1..h |-> [c \in 1..w |-> 0]]

Codes == UNION {[1..n -> Alphabet] : n \in 0..MaxLen}

InitDecode ==
    /\ pc = "parse_url"
    /\ width \in 0..MaxDim
    /\ height \in 0..MaxDim
    /\ list \in Codes
    /\ index = 0 /\ i = 0 /\ j = 0 /\ start = 0
    /\ res = <<>>
    /\ field = <<>> /\ cnt = <<>> /\ ends = <<>> /\ b = <<>>
    /\ parsed = Unset /\ s = <<>> /\ t = <<>> /\ arcs = <<>>
    /\ formula = <<>> /\ model = Unset /\ vars = <<>>
    /\ ret = Unset

\* parse_url from the dimension check on, and the prologue of decode_field
ParseUrl ==
    /\ pc = "parse_url"
    /\ IF width <= 0 \/ height <= 0 \/ ~is_valid_code(list)
       THEN /\ pc' = "returned"
            /\ ret' = None
            /\ res' = res
       ELSE /\ pc' = "outer"
            /\ ret' = ret
            /\ res' = ZeroField(width, height)
    /\ UNCHANGED <<width, height, list, index, i, j, start, field, cnt, ends,
                   b, parsed, s, t, arcs, formula, model, vars>>

\* while index < list.len()
OuterTest ==
    /\ pc = "outer"
    /\ IF index < Len(list)
       THEN /\ pc' = "inner"
            /\ start' = index
            /\ ret' = ret
       ELSE /\ pc' = "returned"
            /\ start' = start
            /\ ret' = Some(res)
    /\ UNCHANGED <<width, height, list, index, i, j, res, field, cnt, ends,
                   b, parsed, s, t, arcs, formula, model, vars>>

\* while let Some(num) = get_num(index, list)
InnerTest ==
    /\ pc = "inner"
    /\ pc' = IF get_num(index, list) # None THEN "write" ELSE "consume"
    /\ UNCHANGED <<width, height, list, index, i, j, res, start, field, cnt,
                   ends, b, parsed, s, t, arcs, formula, model, vars, ret>>

\* body of the while-let: the bounds-checked store res[i][j] = num, the
\* cursor advance and the break at the end of the code
InnerWrite ==
    /\ pc = "write"
    /\ IF i < Len(res) /\ j < Len(At(res, i))
       THEN /\ res' = [res EXCEPT ![i + 1][j + 1] = get_num(index, list).val]
            /\ index' = index + 1
            /\ j' = IF j + 1 >= width THEN 0 ELSE j + 1
            /\ i' = IF j + 1 >= width THEN i + 1 ELSE i
            /\ pc' = IF index + 1 >= Len(list) THEN "consume" ELSE "inner"
       ELSE /\ pc' = "panic"
            /\ UNCHANGED <<res, index, i, j>>
    /\ UNCHANGED <<width, height, list, start, field, cnt, ends, b, parsed,
                   s, t, arcs, formula, model, vars, ret>>

\* one test of consume's while loop and, when it passes, one iteration
Consume ==
    /\ pc = "consume"
    /\ IF index < Len(list) /\ ~is_digit16(At(list, index))
       THEN IF SkipValue(At(list, index)) <= 0
            THEN /\ pc' = "outer"
                 /\ UNCHANGED <<index, i, j>>
            ELSE LET nj == j + SkipValue(At(list, index)) IN
                 /\ i' = IF nj >= width THEN WrapRow(i, nj, width) ELSE i
                 /\ j' = IF nj >= width THEN WrapCol(nj, width) ELSE nj
                 /\ index' = index + 1
                 /\ pc' = "consume"
       ELSE /\ pc' = "outer"
            /\ UNCHANGED <<index, i, j>>
    /\ UNCHANGED <<width, height, list, res, start, field, cnt, ends, b,
                   parsed, s, t, arcs, formula, model, vars, ret>>

NextDecode == ParseUrl \/ OuterTest \/ InnerTest \/ InnerWrite \/ Consume

SpecDecode == InitDecode /\ [][NextDecode]_vrs

----------------------------------------------------------------------------
(* Properties of the decoder *)

\* the reading of a code given in the interface description: a row-major
\* cursor, one cell per hexadecimal digit, ch - 'f' cells per later letter
IsLowerCode(l) ==
    \A k \in 1..Len(l) : \/ l[k] >= CH_0 /\ l[k] <= CH_9
                         \/ l[k] >= CH_a /\ l[k] <= CH_z
IsLowerHex(ch) == (ch >= CH_0 /\ ch <= CH_9) \/ (ch >= CH_a /\ ch <= CH_f)
HexValue(ch) == IF ch <= CH_9 THEN ch - CH_0 ELSE 10 + (ch - CH_a)
Advance(ch) == IF IsLowerHex(ch) THEN 1 ELSE ch - CH_f
RECURSIVE CursorAfter(_, _)
CursorAfter(l, k) ==
    IF k = 0 THEN 0 ELSE CursorAfter(l, k - 1) + Advance(l[k])
ExpectedField(l, w, h) ==
    [r \in 1..h |-> [c \in 1..w |->
        LET pos == (r - 1) * w + (c - 1)
            wr == {k \in 1..Len(l) :
                      IsLowerHex(l[k]) /\ CursorAfter(l, k - 1) = pos}
        IN IF wr = {} THEN 0 ELSE HexValue(l[CHOOSE k \in wr : TRUE])]]
FitsGrid ==
    /\ width > 0 /\ height > 0
    /\ IsLowerCode(list)
    /\ CursorAfter(list, Len(list)) <= width * height

\* C6: decode_field stops once width*height cells are filled: a store
\* res[i][j] is only ever attempted with i < height and j < width, and the
\* value returned is a height-by-width field.
C6_WritesStayInGrid ==
    /\ pc = "write" => (i < height /\ j < width)
    /\ (pc = "returned" /\ ret.tag = "Some") =>
          /\ Len(ret.val) = height
          /\ \A r \in 1..height : Len(ret.val[r]) = width

\* C8: for a code over '0'-'9','a'-'z' that describes at most width*height
\* cells, decode_field does not abort and returns the field of the row-major
\* cursor reading: each hex digit writes its value and advances one cell,
\* each letter past 'f' advances (letter - 'f') cells, unwritten cells are 0.
C8_DecodesCursorReading ==
    FitsGrid =>
        /\ pc # "panic"
        /\ pc = "returned" => ret = Some(ExpectedField(list, width, height))

\* C8 witness: a returned decode in which a skip of two cells crosses a row
\* boundary and is followed by a nonzero digit.
C8_Witness ==
    /\ pc = "returned" /\ FitsGrid /\ ret.tag = "Some"
    /\ \E k \in 2..Len(list) :
          /\ list[k - 1] = 104 /\ list[k] = 51
          /\ width = 1
          /\ ret.val[CursorAfter(list, k - 1) + 1][1] = 3

\* C9: every iteration of decode_field's outer loop increases the index
\* (so the loop over an alphanumeric code terminates).
C9_OuterIterationAdvances ==
    [][(pc = "consume" /\ pc' = "outer") => index' > start]_vrs

----------------------------------------------------------------------------
(* mk_clause_eq1 / mk_clause_less2 *)

\* Lit::from_var(var, polarity); x.negative() is Lit(x, FALSE)
Lit(v, polarity) == [var |-> v, pos |-> polarity]

\* bit >> k & 1
BitOf(bit, k) == (bit \div (2 ^ k)) % 2

\* (bit as u32).popcnt() for bit < 2^n
RECURSIVE Popcnt(_, _)
Popcnt(bit, n) == IF n = 0 THEN 0 ELSE BitOf(bit, n - 1) + Popcnt(bit, n - 1)

\* the inner loop: one literal per variable, positive where the bit is set
LitsOf(vs, bit) == [k \in 1..Len(vs) |-> Lit(vs[k], BitOf(bit, k - 1) # 0)]

\* the bit patterns 0 .. (1<<n)-1 in loop order
BitRange(n) == [k \in 1..(2 ^ n) |-> k - 1]

\* an exactly-one builder that skips the patterns with one bit set
mk_clause_eq1_skip1(vs) ==
    LET n == Len(vs)
        Kept(bit) == ~(Popcnt(bit, n) = 1)
        bits == SelectSeq(BitRange(n), Kept)
    IN [k \in 1..Len(bits) |-> LitsOf(vs, bits[k])]

mk_clause_eq1(vs) ==
    LET n == Len(vs)
        Kept(bit) == ~(Popcnt(bit, n) = n - 1)
        bits == SelectSeq(BitRange(n), Kept)
    IN [k \in 1..Len(bits) |-> LitsOf(vs, bits[k])]

mk_clause_less2(vs) ==
    LET n == Len(vs)
        Kept(bit) == ~(n < 2 + Popcnt(bit, n))
        bits == SelectSeq(BitRange(n), Kept)
    IN [k \in 1..Len(bits) |-> LitsOf(vs, bits[k])]

\* an assignment is the set of its true variables
SatClause(tr, cl) == \E k \in 1..Len(cl) : (cl[k].var \in tr) = cl[k].pos
SatAll(tr, cls) == \A k \in 1..Len(cls) : SatClause(tr, cls[k])

Range(v) == {v[k] : k \in 1..Len(v)}
DistinctVars ==
    {v \in UNION {[1..n -> 0..MaxN] : n \in 1..MaxN} :
        \A x, y \in 1..Len(v) : x # y => v[x] # v[y]}

InitCard ==
    /\ pc = "card"
    /\ vars \in DistinctVars
    /\ width = 0 /\ height = 0 /\ list = <<>>
    /\ index = 0 /\ i = 0 /\ j = 0 /\ start = 0
    /\ res = <<>>
    /\ field = <<>> /\ cnt = <<>> /\ ends = <<>> /\ b = <<>>
    /\ parsed = Unset /\ s = <<>> /\ t = <<>> /\ arcs = <<>>
    /\ formula = <<>> /\ model = Unset
    /\ ret = Unset

CallEq1 ==
    /\ pc = "card"
    /\ res' = mk_clause_eq1(vars)
    /\ ret' = Some(res')
    /\ pc' = "eq1"
    /\ UNCHANGED <<width, height, list, index, i, j, start, field, cnt, ends,
                   b, parsed, s, t, arcs, formula, model, vars>>

CallLess2 ==
    /\ pc = "card"
    /\ res' = mk_clause_less2(vars)
    /\ ret' = Some(res')
    /\ pc' = "less2"
    /\ UNCHANGED <<width, height, list, index, i, j, start, field, cnt, ends,
                   b, parsed, s, t, arcs, formula, model, vars>>

NextCard == CallEq1 \/ CallLess2

SpecCard == InitCard /\ [][NextCard]_vrs

\* C2: over n = 1..MaxN distinct variables, the assignments satisfying every
\* clause of mk_clause_eq1 are exactly those with exactly one variable true,
\* and those satisfying every clause of mk_clause_less2 are exactly those
\* with at most one variable true.
C2_CardinalityExact ==
    /\ pc = "eq1" =>
          {tr \in SUBSET Range(vars) : SatAll(tr, ret.val)}
              = {tr \in SUBSET Range(vars) : Cardinality(tr) = 1}
    /\ pc = "less2" =>
          {tr \in SUBSET Range(vars) : SatAll(tr, ret.val)}
              = {tr \in SUBSET Range(vars) : Cardinality(tr) <= 1}

\* C2 witness: the at-most-one builder has run on four variables and
\* produced its eleven blocking clauses.
C2_Witness ==
    /\ pc = "less2" /\ Len(vars) = 4 /\ Len(ret.val) = 11
    /\ \A k \in 1..Len(ret.val) : Len(ret.val[k]) = 4

----------------------------------------------------------------------------
(* adj / gen_arcs *)

dx == <<1, 0, -1, 0>>
dy == <<0, 1, 0, -1>>

\* adj's loop from direction d on; acc is `res` (and the same cells as `st`)
RECURSIVE AdjFrom(_, _, _, _, _)
AdjFrom(p, w, h, d, acc) ==
    IF d = 4 THEN acc
    ELSE LET ni == AsUsize(p[1] + At(dy, d))
             nj == AsUsize(p[2] + At(dx, d))
         IN AdjFrom(p, w, h, d + 1,
                    IF ni < w /\ nj < h /\ ~Contains(acc, <<ni, nj>>)
                    THEN Append(acc, <<ni, nj>>)
                    ELSE acc)

adj(p, w, h) == AdjFrom(p, w, h, 0, <<>>)

\* gen_arcs: the arcs pushed for one cell u
ArcsOf(u, w, h) == [k \in 1..Len(adj(u, w, h)) |-> <<u, adj(u, w, h)[k]>>]

\* gen_arcs: for i in 0..width, for j in 0..height
gen_arcs(w, h) ==
    Flatten([c \in 1..(w * h) |-> ArcsOf(<<(c - 1) \div h, (c - 1) % h>>, w, h)])

InitArcs ==
    /\ pc = "gen_arcs"
    /\ width \in 1..MaxGrid
    /\ height \in 1..MaxGrid
    /\ i = 0 /\ j = 0
    /\ res = <<>>
    /\ list = <<>> /\ index = 0 /\ start = 0
    /\ field = <<>> /\ cnt = <<>> /\ ends = <<>> /\ b = <<>>
    /\ parsed = Unset /\ s = <<>> /\ t = <<>> /\ arcs = <<>>
    /\ formula = <<>> /\ model = Unset /\ vars = <<>>
    /\ ret = Unset

\* one iteration of gen_arcs's inner loop: cell (i, j)
GenArcsStep ==
    /\ pc = "gen_arcs"
    /\ i < width
    /\ res' = res \o ArcsOf(<<i, j>>, width, height)
    /\ j' = IF j + 1 < height THEN j + 1 ELSE 0
    /\ i' = IF j + 1 < height THEN i ELSE i + 1
    /\ UNCHANGED <<pc, width, height, list, index, start, field, cnt, ends,
                   b, parsed, s, t, arcs, formula, model, vars, ret>>

GenArcsReturn ==
    /\ pc = "gen_arcs"
    /\ i >= width
    /\ ret' = Some(res)
    /\ pc' = "returned"
    /\ UNCHANGED <<width, height, list, index, i, j, res, start, field, cnt,
                   ends, b, parsed, s, t, arcs, formula, model, vars>>

NextArcs == GenArcsStep \/ GenArcsReturn

SpecArcs == InitArcs /\ [][NextArcs]_vrs

Abs(x) == IF x < 0 THEN 0 - x ELSE x
Adjacent(u, v) == Abs(u[1] - v[1]) + Abs(u[2] - v[2]) = 1
\* a position (row, col) of a height-by-width field
InField(p, w, h) == p[1] >= 0 /\ p[1] < h /\ p[2] >= 0 /\ p[2] < w
Occurrences(v, x) == Cardinality({k \in 1..Len(v) : v[k] = x})

\* C3: with positions read as (row, col), row < height and col < width,
\* gen_arcs(width, height) holds each ordered pair of 4-adjacent in-bounds
\* cells exactly once and no arc that leaves the grid or joins cells that
\* are not adjacent.
C3_ArcsExact ==
    pc = "returned" =>
        /\ \A u, v \in (0..(height - 1)) \X (0..(width - 1)) :
              Adjacent(u, v) => Occurrences(ret.val, <<u, v>>) = 1
        /\ \A k \in 1..Len(ret.val) :
              /\ InField(ret.val[k][1], width, height)
              /\ InField(ret.val[k][2], width, height)
              /\ Adjacent(ret.val[k][1], ret.val[k][2])

\* the same on square grids only
ArcsExactSquare == (width = height) => C3_ArcsExact

\* the stepwise loop and the closed form of gen_arcs agree
ArcsLoopIsGenArcs == pc = "returned" => ret.val = gen_arcs(width, height)

----------------------------------------------------------------------------
(* parse_field / solve_numberlink *)

CntLen == 17       \* vec![0; 17]
EndsLen == 2       \* vec![vec![]; 2]

\* mp[&a]: the arc's position in gen_arcs' order (Var::from_index(i))
VarOf(as, a) == (CHOOSE k \in 1..Len(as) : as[k] = a) - 1

\* (12): a unit clause for every arc between cells of different label
LabelClauses(f, as) ==
    Flatten([k \in 1..Len(as) |->
        IF Cell(f, as[k][1]) # Cell(f, as[k][2])
        THEN << <<Lit(k - 1, FALSE)>> >>
        ELSE <<>>])

\* vars pushed from mp[&(u, *v)] / mp[&(*v, u)] over adjs
OutVars(u, as, w, h) ==
    [k \in 1..Len(adj(u, w, h)) |-> VarOf(as, <<u, adj(u, w, h)[k]>>)]
InVars(u, as, w, h) ==
    [k \in 1..Len(adj(u, w, h)) |-> VarOf(as, <<adj(u, w, h)[k], u>>)]
UnitNeg(vs) == [k \in 1..Len(vs) |-> <<Lit(vs[k], FALSE)>>]

\* (3) and (4)
SourceClauses(u, as, w, h) ==
    mk_clause_eq1(OutVars(u, as, w, h)) \o UnitNeg(InVars(u, as, w, h))

\* (5) and (6)
TargetClauses(u, as, w, h) ==
    UnitNeg(OutVars(u, as, w, h)) \o mk_clause_eq1(InVars(u, as, w, h))

\* a body rule that bounds the outgoing arcs only
BodyClausesOutOnly(u, as, w, h) ==
    mk_clause_less2(OutVars(u, as, w, h))

\* (8) and (9)
BodyClauses(u, as, w, h) ==
    mk_clause_less2(OutVars(u, as, w, h)) \o mk_clause_less2(InVars(u, as, w, h))

\* the body of the second loop for one arc (u, v)
ArcClauses(a, as, w, h, src, tgt, body) ==
    << <<Lit(VarOf(as, a), FALSE), Lit(VarOf(as, <<a[2], a[1]>>), FALSE)>> >>
    \o (IF Contains(src, a[1]) THEN SourceClauses(a[1], as, w, h) ELSE <<>>)
    \o (IF Contains(tgt, a[1]) THEN TargetClauses(a[1], as, w, h) ELSE <<>>)
    \o (IF Contains(body, a[1]) THEN BodyClauses(a[1], as, w, h) ELSE <<>>)

BuildFormula(f, as, w, h, src, tgt, body) ==
    LabelClauses(f, as)
    \o Flatten([k \in 1..Len(as) |-> ArcClauses(as[k], as, w, h, src, tgt, body)])

\* field[u.0][u.1] or mp[&(v, u)] would panic for some arc
EncodePanics(f, as) ==
    \E k \in 1..Len(as) :
        \/ \E e \in 1..2 : \/ as[k][e][1] >= Len(f)
                           \/ as[k][e][2] >= Len(At(f, as[k][e][1]))
        \/ ~Contains(as, <<as[k][2], as[k][1]>>)

\* The SAT engine's contract: the assignments satisfying every clause.  An
\* assignment is the set of its true variables; a variable with a negative
\* unit clause is false in every model, so only the others are enumerated.
ForcedFalse(cls) ==
    {cls[k][1].var : k \in {x \in 1..Len(cls) : Len(cls[x]) = 1 /\ ~cls[x][1].pos}}
Models(cls, nvars) ==
    {tr \in SUBSET ((0..(nvars - 1)) \ ForcedFalse(cls)) : SatAll(tr, cls)}

\* the value of line 147
SolveReturn(m) == Some(<<>>)

Shapes == {sh \in (1..MaxCells) \X (1..MaxCells) : sh[1] * sh[2] <= MaxCells}
SmallFields ==
    UNION {[1..sh[2] -> [1..sh[1] -> 0..MaxLabel]] : sh \in Shapes}
ScenarioA == <<<<1, 0, 2>>, <<0, 0, 0>>, <<2, 0, 1>>>>
ThreePairs == <<<<1, 1, 2>>, <<0, 0, 2>>, <<0, 3, 3>>>>
Fields == SmallFields \cup {<<>>, << <<>> >>, ScenarioA, ThreePairs}

InitSolve ==
    /\ pc = "solve"
    /\ field \in Fields
    /\ width = 0 /\ height = 0 /\ list = <<>>
    /\ index = 0 /\ i = 0 /\ j = 0 /\ start = 0
    /\ res = <<>>
    /\ cnt = <<>> /\ ends = <<>> /\ b = <<>>
    /\ parsed = Unset /\ s = <<>> /\ t = <<>> /\ arcs = <<>>
    /\ formula = <<>> /\ model = Unset /\ vars = <<>>
    /\ ret = Unset

\* solve_numberlink up to the call of parse_field, and parse_field's prologue
SolveEntry ==
    /\ pc = "solve"
    /\ IF Len(field) = 0 \/ Len(At(field, 0)) = 0
       THEN /\ ret' = None
            /\ pc' = "returned"
            /\ UNCHANGED <<width, height, cnt, ends, b>>
       ELSE /\ width' = Len(At(field, 0))
            /\ height' = Len(field)
            /\ cnt' = [k \in 1..CntLen |-> 0]
            /\ ends' = [k \in 1..EndsLen |-> <<>>]
            /\ b' = <<>>
            /\ pc' = "parse"
            /\ ret' = ret
    /\ UNCHANGED <<list, index, i, j, res, start, field, parsed, s, t, arcs,
                   formula, model, vars>>

\* parse_field: one cell (i, j) of the row-major scan
ParseStep ==
    /\ pc = "parse"
    /\ i < Len(field)
    /\ LET p == Cell(field, <<i, j>>) IN
       IF p > 0
       THEN IF p >= Len(cnt) \/ At(cnt, p) >= Len(ends)
            THEN /\ pc' = "panic"
                 /\ UNCHANGED <<cnt, ends, b, parsed, i, j>>
            ELSE /\ ends' = [ends EXCEPT ![At(cnt, p) + 1] = Append(@, <<i, j>>)]
                 /\ cnt' = [cnt EXCEPT ![p + 1] = @ + 1]
                 /\ b' = b
                 /\ IF At(cnt, p) + 1 > 2
                    THEN /\ parsed' = None
                         /\ pc' = "check"
                         /\ UNCHANGED <<i, j>>
                    ELSE /\ parsed' = parsed
                         /\ pc' = pc
                         /\ j' = IF j + 1 < Len(At(field, i)) THEN j + 1 ELSE 0
                         /\ i' = IF j + 1 < Len(At(field, i)) THEN i ELSE i + 1
       ELSE /\ b' = Append(b, <<i, j>>)
            /\ j' = IF j + 1 < Len(At(field, i)) THEN j + 1 ELSE 0
            /\ i' = IF j + 1 < Len(At(field, i)) THEN i ELSE i + 1
            /\ UNCHANGED <<cnt, ends, parsed, pc>>
    /\ UNCHANGED <<width, height, list, index, res, start, field, s, t, arcs,
                   formula, model, vars, ret>>

\* parse_field: Some((ends[0].clone(), ends[1].clone(), b))
ParseReturn ==
    /\ pc = "parse"
    /\ i >= Len(field)
    /\ parsed' = Some(<<At(ends, 0), At(ends, 1), b>>)
    /\ pc' = "check"
    /\ UNCHANGED <<width, height, list, index, i, j, res, start, field, cnt,
                   ends, b, s, t, arcs, formula, model, vars, ret>>

\* solve_numberlink: unwrap_or and the validation check
CheckValid ==
    /\ pc = "check"
    /\ LET stb == IF parsed = None THEN <<<<>>, <<>>, <<>>>> ELSE parsed.val IN
       /\ s' = stb[1]
       /\ t' = stb[2]
       /\ b' = stb[3]
       /\ IF \/ Len(stb[1]) = 0
             \/ Len(stb[1]) # Len(stb[2])
             \/ Len(stb[1]) + Len(stb[2]) + Len(stb[3]) # width * height
          THEN /\ ret' = None
               /\ pc' = "returned"
          ELSE /\ ret' = ret
               /\ pc' = "encode"
    /\ UNCHANGED <<width, height, list, index, i, j, res, start, field, cnt,
                   ends, parsed, arcs, formula, model, vars>>

\* solve_numberlink: gen_arcs and the two clause loops
Encode ==
    /\ pc = "encode"
    /\ arcs' = gen_arcs(width, height)
    /\ IF EncodePanics(field, arcs')
       THEN /\ pc' = "panic"
            /\ formula' = formula
       ELSE /\ pc' = "solver"
            /\ formula' = BuildFormula(field, arcs', width, height, s, t, b)
    /\ UNCHANGED <<width, height, list, index, i, j, res, start, field, cnt,
                   ends, b, parsed, s, t, model, vars, ret>>

\* solve_numberlink: solver.solve(), solver.model() and the return
SolveSat ==
    /\ pc = "solver"
    /\ \/ \E m \in Models(formula, Len(arcs)) : model' = Some(m)
       \/ Models(formula, Len(arcs)) = {} /\ model' = None
    /\ ret' = SolveReturn(model')
    /\ pc' = "returned"
    /\ UNCHANGED <<width, height, list, index, i, j, res, start, field, cnt,
                   ends, b, parsed, s, t, arcs, formula, vars>>

NextSolve ==
    SolveEntry \/ ParseStep \/ ParseReturn \/ CheckValid \/ Encode \/ SolveSat

SpecSolve == InitSolve /\ [][NextSolve]_vrs

----------------------------------------------------------------------------
(* Properties of the validator, the encoder and the solve step *)

Cells(f) == UNION {{<<r - 1, c - 1>> : c \in 1..Len(f[r])} : r \in 1..Len(f)}
CellsOf(f, l) == {p \in Cells(f) : Cell(f, p) = l}
Labels(f) == {Cell(f, p) : p \in Cells(f)} \ {0}
HasTriple(f) == \E l \in Labels(f) : Cardinality(CellsOf(f, l)) >= 3
HasSingle(f) == \E l \in Labels(f) : Cardinality(CellsOf(f, l)) = 1

\* C4: when some nonzero label occurs a third time in the scan, parse_field
\* returns None at that occurrence: the scan does not abort, and it does not
\* return the sets.
C4_ThirdOccurrenceIsNone ==
    HasTriple(field) =>
        /\ pc # "panic"
        /\ parsed # Unset => parsed = None

\* C5, first half: past the validation check every nonzero label occurs
\* exactly twice, |s| = |t| > 0 and |s| + |t| + |b| = width * height.
PastValidation ==
    pc \in {"encode", "solver"} \/ formula # <<>> =>
        /\ \A l \in Labels(field) : Cardinality(CellsOf(field, l)) = 2
        /\ Len(s) = Len(t) /\ Len(s) > 0
        /\ Len(s) + Len(t) + Len(b) = width * height

\* C5, second half: a field in which some nonzero label occupies only one
\* cell, or which has no nonzero label, is answered with None and no formula
\* is built for it.
SingleIsRejected ==
    HasSingle(field) \/ Labels(field) = {} =>
        /\ pc \notin {"panic", "encode", "solver"}
        /\ formula = <<>>
        /\ pc = "returned" => ret = None

\* C5: solve_numberlink encodes only valid fields, and returns None without
\* building a formula for every field with a label that occupies one cell
\* only or with no nonzero label.
C5_OnlyValidFieldsEncoded == PastValidation /\ SingleIsRejected

IsSquare == width = height /\ width > 0
Validated == pc = "returned" /\ model # Unset
OutCount(m, u) == Cardinality({k \in m : At(arcs, k)[1] = u})
InCount(m, u) == Cardinality({k \in m : At(arcs, k)[2] = u})

\* cells reached from `cells` along true arcs
RECURSIVE ReachFrom(_, _)
ReachFrom(m, cells) ==
    LET nxt == cells \cup {At(arcs, k)[2] : k \in {x \in m : At(arcs, x)[1] \in cells}}
    IN IF nxt = cells THEN cells ELSE ReachFrom(m, nxt)
TargetOf(src) == CHOOSE q \in Range(t) : Cell(field, q) = Cell(field, src)

\* C1: for the 3x3 field with 1 at (0,0),(2,2) and 2 at (0,2),(2,0) the
\* formula built is satisfiable and some model holds, for each label, a
\* chain of true arcs from its source to its target, the chains sharing no
\* cell.
C1_ScenarioASatisfiable ==
    (pc = "solver" /\ field = ScenarioA) =>
        \E m \in Models(formula, Len(arcs)) :
            /\ \A k \in 1..Len(s) : TargetOf(s[k]) \in ReachFrom(m, {s[k]})
            /\ \A k, l \in 1..Len(s) :
                  k # l => ReachFrom(m, {s[k]}) \cap ReachFrom(m, {s[l]}) = {}

\* C7: when the formula of a validated field is unsatisfiable the value
\* returned differs from the value returned for a satisfiable formula and
\* from None, the value returned for a malformed field.
C7_UnsatReportedDistinctly ==
    (Validated /\ model = None) =>
        /\ ret # None
        /\ ret # SolveReturn(Some({}))

\* C10 as stated: in every model for a validated square field each body
\* cell has as many true outgoing as true incoming arcs, at most one each.
C10_BodyFlowConserved ==
    (Validated /\ IsSquare /\ model # None) =>
        \A k \in 1..Len(b) :
            /\ OutCount(model.val, b[k]) = InCount(model.val, b[k])
            /\ OutCount(model.val, b[k]) <= 1

\* C10 amended: in every model for a validated square field each body cell
\* has at most one true outgoing arc and at most one true incoming arc (the
\* two counts need not be equal).
C10_BodyDegreeAtMostOne ==
    (Validated /\ IsSquare /\ model # None) =>
        \A k \in 1..Len(b) :
            /\ OutCount(model.val, b[k]) <= 1
            /\ InCount(model.val, b[k]) <= 1

\* C10 witness: a model for a 3x3 field in which a body cell with two body
\* neighbours sends flow to one of them and receives none.
C10_Witness ==
    /\ Validated /\ IsSquare /\ model # None /\ field = ThreePairs
    /\ OutCount(model.val, <<1, 0>>) = 1
    /\ InCount(model.val, <<1, 0>>) = 0

====
